---- MODULE Spec2Model ----
(***************************************************************************)
(* PyBackup (src/pybackup.py): the path index of an iOS backup, its cache  *)
(* file pybackup.json, the construction of a ParsedBackup, the checks of   *)
(* main and the copy loop of the extractors.                               *)
(*                                                                         *)
(* A path is a sequence of components (strings).  A dict is a function;    *)
(* the empty dict is << >>.                                                *)
(***************************************************************************)
EXTENDS Naturals, Sequences, FiniteSets, TLC

VARIABLES
    tree,         \* the non-directory files under the backup root (paths), cache file apart
    corrupt,      \* the metadata documents of tree that do not parse
    cache,        \* pybackup.json: [kind: "absent" | "garbage" | "json", items: JSON text]
    scanned,      \* history: [files, tree] of the scan that wrote the cache file
    db,           \* Manifest.db: "missing" | "empty" (no table) | "ok"
    Files,        \* the rows of table Files of Manifest.db, in rowid order
    version,      \* Status.plist Version
    encrypted,    \* Manifest.plist IsEncrypted
    isdir,        \* os.path.isdir(opts.path)
    override,     \* opts.override
    extract_type, \* opts.extract_type ("None" when the flag is absent)
    pc,           \* position of the run
    files,        \* from_path: list(backup_path.rglob('*'))
    i,            \* from_path: position of the for loop in files
    json_data,    \* from_path: the mapping being built or loaded
    found_files,  \* ParsedBackup.found_files
    out,          \* the messages printed so far
    status,       \* "running" | "exit0" | "exit-1" | "exception" | "killed"
    fetched,      \* __copy_files__: the parameter files (cursor.fetchall())
    k,            \* __copy_files__: position of the for loop in fetched
    bar,          \* __copy_files__: number of bar.update() calls
    dest          \* the files written by shutil.copy: absolute path -> source path

envVars  == <<tree, corrupt, cache, scanned, db, Files, version, encrypted>>
optVars  == <<isdir, override, extract_type>>
scanVars == <<files, i, json_data>>
copyVars == <<fetched, k, bar, dest>>
vars == <<envVars, optVars, scanVars, copyVars, pc, found_files, out, status>>

(***************************************************************************)
(* Bounds of the model.                                                    *)
(***************************************************************************)
MaxFiles == 2     \* content files in the backup root of the index runs
MaxRows  == 2     \* rows of table Files in the copy runs

(***************************************************************************)
(* Paths and the directory tree.                                           *)
(***************************************************************************)
\* file.name: the last component.
Name(p) == p[Len(p)]

\* The directories a set of files implies: every proper non-empty prefix.
Dirs(T) == UNION { { SubSeq(p, 1, n) : n \in 1..(Len(p) - 1) } : p \in T }

\* What rglob('*') visits: every descendant, directories included.
Entries(T) == T \cup Dirs(T)

\* file.is_dir()
is_dir(file, T) == file \notin T

\* The orders in which rglob may yield a set of entries: the order is the
\* directory order of the file system, any permutation.
Listings(S) ==
    { s \in [1..Cardinality(S) -> S] : \A a, b \in 1..Cardinality(S) : s[a] = s[b] => a = b }

(***************************************************************************)
(* The content files a backup root may hold.  Two of them share the name   *)
(* f1 in different directories.                                            *)
(***************************************************************************)
ContentUniverse ==
    { <<"f1">>, <<"aa", "f1">>, <<"aa", "f2">>, <<"aa", "bb", "f3">> }

EmptyDict == << >>

(***************************************************************************)
(* ParsedBackup.from_path: the scan.                                       *)
(***************************************************************************)
\* A faulty variant of Record: the is_dir test is dropped.
Record_NoDirTest(data, file, T) ==
    (Name(file) :> [path |-> file]) @@ data

\* One pass of the for loop over files (lines 58-61):
\*   if not file.is_dir(): json_data[file.name] = {'path': relpath(file, backup_path)}
Record(data, file, T) ==
    IF ~is_dir(file, T)
    THEN (Name(file) :> [path |-> file]) @@ data
    ELSE data

\* The whole for loop over a listing.
RECURSIVE ScanFrom(_, _, _, _)
ScanFrom(data, listing, n, T) ==
    IF n > Len(listing) THEN data
    ELSE ScanFrom(Record(data, listing[n], T), listing, n + 1, T)

ScanAll(listing, T) == ScanFrom(EmptyDict, listing, 1, T)

(***************************************************************************)
(* The cache file: json.dumps writes the items of the dict one after the   *)
(* other, json.load reads them back in that order, a later item of the     *)
(* same key replacing an earlier one.                                      *)
(***************************************************************************)
RECURSIVE JsonDumpKeys(_, _)
JsonDumpKeys(data, keys) ==
    IF keys = {} THEN << >>
    ELSE LET key == CHOOSE x \in keys : TRUE
         IN  <<[key |-> key, value |-> data[key]]>> \o JsonDumpKeys(data, keys \ {key})

JsonDump(data) == JsonDumpKeys(data, DOMAIN data)

RECURSIVE JsonLoad(_)
JsonLoad(items) ==
    IF items = << >> THEN EmptyDict
    ELSE LET last == items[Len(items)]
         IN  (last.key :> last.value) @@ JsonLoad(SubSeq(items, 1, Len(items) - 1))

NoCache == [kind |-> "absent", items |-> << >>]
NoScan  == [files |-> << >>, tree |-> {}]
Garbage == [kind |-> "garbage", items |-> << >>]

\* The for loop of from_path has visited every entry of files.
ScanDone == i > Len(files)

\* from_path, lines 49-57 and 66: json_file.is_file() decides between the scan
\* and the load.
from_path ==
    /\ pc = "from_path"
    /\ json_data' = EmptyDict
    /\ i' = 1
    /\ IF cache.kind = "absent"
       THEN /\ out' = out \cup {"Parsing backup..."}
            /\ \E listing \in Listings(Entries(tree)) : files' = listing
            /\ pc' = "scan"
       ELSE /\ pc' = "load"
            /\ UNCHANGED <<out, files>>
    /\ UNCHANGED <<envVars, optVars, copyVars, found_files, status>>

\* One pass of the for loop, lines 58-61.
ScanStep ==
    /\ pc = "scan"
    /\ ~ScanDone
    /\ json_data' = Record(json_data, files[i], tree)
    /\ i' = i + 1
    /\ UNCHANGED <<envVars, optVars, copyVars, files, pc, found_files, out, status>>

\* Line 63, after the loop: open(json_file, 'w') creates the cache file, empty.
\* An empty file is no JSON document.
OpenCache ==
    /\ pc = "scan"
    /\ ScanDone
    /\ cache' = Garbage
    /\ scanned' = [files |-> files, tree |-> tree]
    /\ pc' = "write"
    /\ UNCHANGED <<tree, corrupt, db, Files, version, encrypted, optVars, scanVars,
                   copyVars, found_files, out, status>>

\* Lines 64-65: json.dumps, file.write and file.close.  The text reaches the
\* file when the buffer is flushed; until then the file is empty or holds a
\* cut text, which is no JSON document either.
WriteCache ==
    /\ pc = "write"
    /\ cache' = [kind |-> "json", items |-> JsonDump(json_data)]
    /\ scanned' = scanned
    /\ pc' = "construct"
    /\ UNCHANGED <<tree, corrupt, db, Files, version, encrypted, optVars, scanVars,
                   copyVars, found_files, out, status>>

\* Lines 67-73: json.load, a JSONDecodeError is printed and json_data stays {}.
LoadCache ==
    /\ pc = "load"
    /\ IF cache.kind = "json"
       THEN /\ json_data' = JsonLoad(cache.items)
            /\ out' = out
       ELSE /\ json_data' = json_data
            /\ out' = out \cup {"There was an error decoding the JSON file"}
    /\ pc' = "construct"
    /\ UNCHANGED <<envVars, optVars, copyVars, files, i, found_files, status>>

(***************************************************************************)
(* The index runs: from_path run after run on a backup root whose content  *)
(* files change between the runs; a run may be interrupted.                *)
(***************************************************************************)
\* The process is interrupted while from_path scans, writes the cache file or
\* loads it.
Kill ==
    /\ pc \in {"scan", "write", "load"}
    /\ pc' = "killed"
    /\ status' = "killed"
    /\ UNCHANGED <<envVars, optVars, scanVars, copyVars, found_files, out>>

\* The next invocation of the program on the same backup root.
NextRun ==
    /\ pc \in {"construct", "killed"}
    /\ pc' = "from_path"
    /\ status' = "running"
    /\ files' = << >>
    /\ i' = 1
    /\ json_data' = EmptyDict
    /\ out' = {}
    /\ UNCHANGED <<envVars, optVars, copyVars, found_files>>

\* Between two runs a content file appears in the backup root.
AddFile ==
    /\ pc = "from_path"
    /\ Cardinality(tree) < MaxFiles
    /\ \E f \in ContentUniverse \ tree : tree' = tree \cup {f}
    /\ UNCHANGED <<corrupt, cache, scanned, db, Files, version, encrypted, optVars,
                   scanVars, copyVars, pc, found_files, out, status>>

\* Between two runs a content file is removed from the backup root.
RemoveFile ==
    /\ pc = "from_path"
    /\ \E f \in tree : tree' = tree \ {f}
    /\ UNCHANGED <<corrupt, cache, scanned, db, Files, version, encrypted, optVars,
                   scanVars, copyVars, pc, found_files, out, status>>

\* Between two runs the operator deletes the cache file.
DeleteCache ==
    /\ pc = "from_path"
    /\ cache.kind # "absent"
    /\ cache' = NoCache
    /\ scanned' = NoScan
    /\ UNCHANGED <<tree, corrupt, db, Files, version, encrypted, optVars,
                   scanVars, copyVars, pc, found_files, out, status>>

InitIndex ==
    /\ tree \in { T \in SUBSET ContentUniverse : Cardinality(T) <= MaxFiles }
    /\ corrupt = {}
    /\ cache = NoCache
    /\ scanned = NoScan
    /\ db = "ok"
    /\ Files = << >>
    /\ version = "3.3"
    /\ encrypted = FALSE
    /\ isdir = TRUE
    /\ override = FALSE
    /\ extract_type = "None"
    /\ pc = "from_path"
    /\ files = << >>
    /\ i = 1
    /\ json_data = EmptyDict
    /\ found_files = EmptyDict
    /\ out = {}
    /\ status = "running"
    /\ fetched = << >>
    /\ k = 1
    /\ bar = 0
    /\ dest = EmptyDict

NextIndex ==
    \/ from_path
    \/ ScanStep
    \/ OpenCache
    \/ WriteCache
    \/ LoadCache
    \/ Kill
    \/ NextRun
    \/ AddFile
    \/ RemoveFile
    \/ DeleteCache

SpecIndex == InitIndex /\ [][NextIndex]_vars


(***************************************************************************)
(* The metadata documents of a backup root.                                *)
(***************************************************************************)
InfoPlist     == <<"Info.plist">>
ManifestPlist == <<"Manifest.plist">>
StatusPlist   == <<"Status.plist">>
ManifestDb    == <<"Manifest.db">>
Plists   == {InfoPlist, ManifestPlist, StatusPlist}
MetaDocs == Plists \cup {ManifestDb}

\* __parse_plist__ (lines 78-85): Path.open raises on a missing file,
\* plistlib.load on one that is no plist.
parse_plist(doc) ==
    IF doc \notin tree THEN "FileNotFoundError"
    ELSE IF doc \in corrupt THEN "InvalidFileException"
    ELSE "ok"

\* Lines 29-31: the three documents parse.
plists_parse == \A doc \in Plists : parse_plist(doc) = "ok"

\* main, lines 142-149: the backup path is verified, then from_path is called.
main ==
    /\ pc = "main"
    /\ IF isdir
       THEN /\ pc' = "from_path"
            /\ status' = status
       ELSE /\ pc' = "end"
            /\ status' = "exception"
    /\ UNCHANGED <<envVars, optVars, scanVars, copyVars, found_files, out>>

\* ParsedBackup.__init__ (lines 25-34), called at line 75.  sqlite3.connect
\* opens Manifest.db and creates the file, with no table, when it is missing.
ParsedBackup_init ==
    /\ pc = "construct"
    /\ found_files' = json_data
    /\ IF plists_parse
       THEN /\ pc' = "checks"
            /\ status' = status
            /\ IF ManifestDb \in tree
               THEN UNCHANGED <<tree, db>>
               ELSE /\ tree' = tree \cup {ManifestDb}
                    /\ db' = "empty"
       ELSE /\ pc' = "end"
            /\ status' = "exception"
            /\ UNCHANGED <<tree, db>>
    /\ UNCHANGED <<corrupt, cache, scanned, Files, version, encrypted, optVars,
                   scanVars, copyVars, out>>

WarnEncrypted == "Warning! Backup is encrypted"
WarnVersion   == "Warning! This tool has only been tested with v3.3"

\* Line 160: the version check.
VersionRefused == ~override /\ version # "3.3"

\* main, lines 152-167: the table is printed, the encryption warning, the
\* version check, and the extractor of opts.extract_type is called.
main_checks ==
    /\ pc = "checks"
    /\ out' = out \cup {"information"}
                  \cup (IF encrypted THEN {WarnEncrypted} ELSE {})
                  \cup (IF VersionRefused THEN {WarnVersion} ELSE {})
    /\ IF VersionRefused
       THEN /\ pc' = "end"
            /\ status' = "exit-1"
       ELSE IF extract_type = "None"
       THEN /\ pc' = "end"
            /\ status' = "exit0"
       ELSE /\ pc' = extract_type
            /\ status' = status
    /\ UNCHANGED <<envVars, optVars, scanVars, copyVars, found_files>>

(***************************************************************************)
(* The extractors.  A row of Files is the tuple (fileID, domain,           *)
(* relativePath): file[0] is row[1] here, file[2] is row[3].               *)
(***************************************************************************)
\* relativePath like 'Media/DCIM/%APPLE/%' (line 106): after Media/DCIM/ some
\* component ends in APPLE and is followed by a separator.  (LIKE ignores the
\* case of ASCII letters; the components of the model differ in more than case.)
AppleDirs == {"100APPLE"}
like_camera_roll(path) ==
    /\ Len(path) >= 4
    /\ path[1] = "Media"
    /\ path[2] = "DCIM"
    /\ \E j \in 3..(Len(path) - 1) : path[j] \in AppleDirs

RECURSIVE Select(_, _)
Select(table, n) ==
    IF n > Len(table) THEN << >>
    ELSE (IF like_camera_roll(table[n][3]) THEN <<table[n]>> ELSE << >>)
         \o Select(table, n + 1)

\* __extract_all__ (lines 96-98).  On a database without table Files the
\* query raises sqlite3.OperationalError, which main does not catch.
extract_all ==
    /\ pc = "all"
    /\ IF db = "ok"
       THEN /\ fetched' = Files
            /\ pc' = "copy"
            /\ status' = status
       ELSE /\ fetched' = fetched
            /\ pc' = "end"
            /\ status' = "exception"
    /\ k' = 1
    /\ bar' = 0
    /\ UNCHANGED <<envVars, optVars, scanVars, dest, found_files, out>>

\* __extract_camera_roll__ (lines 100-107).
extract_camera_roll ==
    /\ pc = "camera_roll"
    /\ out' = out \cup {"Extracting Camera Roll..."}
    /\ IF db = "ok"
       THEN /\ fetched' = Select(Files, 1)
            /\ pc' = "copy"
            /\ status' = status
       ELSE /\ fetched' = fetched
            /\ pc' = "end"
            /\ status' = "exception"
    /\ k' = 1
    /\ bar' = 0
    /\ UNCHANGED <<envVars, optVars, scanVars, dest, found_files>>

(***************************************************************************)
(* sanitize_filepath of pathvalidate (line 121), platform universal: the   *)
(* characters  : * ? " < > |  are removed, the path is normalised          *)
(* (os.path.normpath), every component is sanitised as a file name, which  *)
(* keeps "." and "..", and the components are joined again.                *)
(***************************************************************************)
\* Of the components of the model only pre?fs holds a removed character.
strip_invalid(c) == IF c = "pre?fs" THEN "prefs" ELSE c

RECURSIVE normpath(_, _)
normpath(stack, rest) ==
    IF rest = << >> THEN stack
    ELSE LET c == strip_invalid(Head(rest))
         IN  IF c \in {"", "."} THEN normpath(stack, Tail(rest))
             ELSE IF c = ".." /\ stack # << >> /\ stack[Len(stack)] # ".."
             THEN normpath(SubSeq(stack, 1, Len(stack) - 1), Tail(rest))
             ELSE normpath(Append(stack, c), Tail(rest))

sanitize_filepath(path) == normpath(<< >>, path)

\* destination, resolved (line 167).
DestRoot == <<"dst">>

\* The file an absolute path names: ".." leaves a directory, and the root is
\* its own parent.
RECURSIVE resolve(_, _)
resolve(at, rest) ==
    IF rest = << >> THEN at
    ELSE IF Head(rest) = ".."
    THEN resolve(IF at = << >> THEN at ELSE SubSeq(at, 1, Len(at) - 1), Tail(rest))
    ELSE resolve(Append(at, Head(rest)), Tail(rest))

\* Line 121: destination / sanitize_filepath(file[2]), as the operating system
\* resolves it.
absoluteDestination(row) == resolve(DestRoot, sanitize_filepath(row[3]))

\* Line 125: shutil.copy raises when the source is not in the backup.
copy_raises(row) == found_files[row[1]].path \notin tree

\* Line 116: not fileID in backup.found_files
unresolved(row) == row[1] \notin DOMAIN found_files

\* One pass of the for loop of __copy_files__ (lines 112-126).  An exception of
\* shutil.copy leaves the loop, the extractor and main: main catches KeyError
\* only (line 168).
copy_file ==
    /\ pc = "copy"
    /\ k <= Len(fetched)
    /\ LET file == fetched[k]
       IN  IF unresolved(file)
           THEN /\ k' = k + 1
                /\ UNCHANGED <<bar, dest, pc, status>>
           ELSE IF copy_raises(file)
           THEN /\ pc' = "end"
                /\ status' = "exception"
                /\ UNCHANGED <<k, bar, dest>>
           ELSE /\ dest' = (absoluteDestination(file) :> found_files[file[1]].path) @@ dest
                /\ bar' = bar + 1
                /\ k' = k + 1
                /\ UNCHANGED <<pc, status>>
    /\ UNCHANGED <<envVars, optVars, scanVars, fetched, found_files, out>>

\* The loop is over; the extractor and main return.
copy_done ==
    /\ pc = "copy"
    /\ k > Len(fetched)
    /\ pc' = "end"
    /\ status' = "exit0"
    /\ UNCHANGED <<envVars, optVars, scanVars, copyVars, found_files, out>>

(***************************************************************************)
(* The rows a manifest may hold.  Their paths are relative; no path is a    *)
(* prefix of another, so os.makedirs (line 123) never meets a file.        *)
(***************************************************************************)
RowUniverse ==
    { <<"f1", "CameraRollDomain", <<"Media", "DCIM", "100APPLE", "IMG_0001.JPG">>>>,
      <<"f2", "HomeDomain", <<"Library", "prefs">>>>,
      <<"f3", "AppDomain", <<"Library", "prefs">>>>,
      <<"f4", "HomeDomain", <<"..", "..", "etc", "passwd">>>>,
      <<"f5", "HomeDomain", <<"Library", "pre?fs">>>> }

\* The place of a content file in the backup root: a bucket directory and the fileID.
SourcePath(fileID) == <<"aa", fileID>>

\* The tables of at most n rows, no row twice.
Tables(n) ==
    UNION { { t \in [1..m -> RowUniverse] : \A a, b \in 1..m : t[a] = t[b] => a = b }
            : m \in 0..n }

\* The path index of a backup root that holds the metadata documents and the
\* content files of ids.
IndexOf(ids) ==
    [ id \in ids |-> [path |-> SourcePath(id)] ]
        @@ [ n \in { Name(d) : d \in MetaDocs } |-> [path |-> <<n>>] ]

(***************************************************************************)
(* The copy runs: an extractor is called on a parsed backup.  The path     *)
(* index may name files the backup no longer holds and lack rows of the    *)
(* manifest.                                                               *)
(***************************************************************************)
InitCopy ==
    /\ Files \in Tables(MaxRows)
    /\ \E indexed \in SUBSET { Files[n][1] : n \in 1..Len(Files) } :
         \E present \in SUBSET indexed :
            /\ found_files = IndexOf(indexed)
            /\ tree = MetaDocs \cup { SourcePath(id) : id \in present }
    /\ corrupt = {}
    /\ cache = [kind |-> "json", items |-> JsonDump(found_files)]
    /\ scanned = NoScan
    /\ db = "ok"
    /\ version = "3.3"
    /\ encrypted = FALSE
    /\ isdir = TRUE
    /\ override = FALSE
    /\ extract_type \in {"all", "camera_roll"}
    /\ pc = extract_type
    /\ files = << >>
    /\ i = 1
    /\ json_data = found_files
    /\ out = {"information"}
    /\ status = "running"
    /\ fetched = << >>
    /\ k = 1
    /\ bar = 0
    /\ dest = EmptyDict

NextCopy ==
    \/ extract_all
    \/ extract_camera_roll
    \/ copy_file
    \/ copy_done

SpecCopy == InitCopy /\ [][NextCopy]_vars

(***************************************************************************)
(* One run of main on a backup root with one content file.                 *)
(***************************************************************************)
MainContent == { <<"f1">> }
MainFiles ==
    << <<"f1", "CameraRollDomain", <<"Media", "DCIM", "100APPLE", "IMG_0001.JPG">>>>,
       <<"f2", "HomeDomain", <<"Library", "prefs">>>> >>

Init ==
    /\ \E missing \in SUBSET MetaDocs :
         /\ Cardinality(missing) <= 1
         /\ tree = (MetaDocs \ missing) \cup MainContent
         /\ corrupt \in { c \in SUBSET Plists : Cardinality(c) + Cardinality(missing) <= 1 }
    /\ \/ LET listing == CHOOSE l \in Listings(Entries(tree)) : TRUE
          IN  /\ cache = [kind |-> "json", items |-> JsonDump(ScanAll(listing, tree))]
              /\ scanned = [files |-> listing, tree |-> tree]
       \/ cache = NoCache /\ scanned = NoScan
       \/ cache = Garbage /\ scanned = NoScan
    /\ db = IF ManifestDb \in tree THEN "ok" ELSE "missing"
    /\ Files = MainFiles
    /\ version \in {"3.3", "3.2"}
    /\ encrypted \in BOOLEAN
    /\ isdir \in BOOLEAN
    /\ override \in BOOLEAN
    /\ extract_type \in {"None", "all", "camera_roll"}
    /\ pc = "main"
    /\ files = << >>
    /\ i = 1
    /\ json_data = EmptyDict
    /\ found_files = EmptyDict
    /\ out = {}
    /\ status = "running"
    /\ fetched = << >>
    /\ k = 1
    /\ bar = 0
    /\ dest = EmptyDict

Next ==
    \/ main
    \/ from_path
    \/ ScanStep
    \/ OpenCache
    \/ WriteCache
    \/ LoadCache
    \/ ParsedBackup_init
    \/ main_checks
    \/ extract_all
    \/ extract_camera_roll
    \/ copy_file
    \/ copy_done

Spec == Init /\ [][Next]_vars


(***************************************************************************)
(* The claims.                                                             *)
(***************************************************************************)
ExtractorCalled == pc \in {"all", "camera_roll", "copy"}
ContentFiles    == tree \ MetaDocs
Copyable(row)   == ~unresolved(row) /\ ~copy_raises(row)

\* C1, as claimed: a row whose fileID is not in the path index is skipped and
\* counted, without an exception: while the loop runs as after it, the count
\* the loop keeps (the progress bar, its only counter) covers every row it has
\* passed, the skipped ones included.
C1_Claim ==
    (pc \in {"copy", "end"} /\ status # "exception") => bar = k - 1

\* C2, as claimed: a copy that fails is recorded and the loop goes on: when the
\* run has ended, the loop has passed every row that resolves and whose copy
\* can succeed, whatever failed before it.
C2_Claim ==
    pc = "end" => \A j \in 1..Len(fetched) : Copyable(fetched[j]) => j < k

\* C3, as claimed: no extractor is called with an empty path index while the
\* backup root holds content files, whatever the state of the cache file.
C3_Claim ==
    ExtractorCalled => ~(DOMAIN found_files = {} /\ ContentFiles # {})

\* C4, as claimed: when the scan is over the path index has as many entries
\* as the backup root has non-directory entries, each of them in the index.
C4_Claim ==
    (pc = "scan" /\ ScanDone) =>
        /\ Cardinality(DOMAIN json_data) = Cardinality(tree)
        /\ \A f \in tree : \E n \in DOMAIN json_data : json_data[n].path = f

\* The last place of a listing that holds a file of name n.
LastOfName(listing, T, n) ==
    CHOOSE j \in 1..Len(listing) :
        /\ listing[j] \in T /\ Name(listing[j]) = n
        /\ \A h \in (j + 1)..Len(listing) : ~(listing[h] \in T /\ Name(listing[h]) = n)

\* C4, amended: when the scan is over the path index has exactly one entry per
\* name of a non-directory entry, none for a directory, and a name maps to the
\* file of that name that the scan met last; so it has as many entries as
\* there are files exactly when no two files share a name.
C4_OneEntryPerName ==
    (pc = "scan" /\ ScanDone) =>
        /\ DOMAIN json_data = { Name(f) : f \in tree }
        /\ \A n \in DOMAIN json_data :
              json_data[n].path = files[LastOfName(files, tree, n)]
        /\ (Cardinality(DOMAIN json_data) = Cardinality(tree))
              <=> (\A f, g \in tree : Name(f) = Name(g) => f = g)

\* C4, its case: a scan is over of a tree with a directory and two files of
\* one name.
C4_Witness ==
    /\ pc = "scan" /\ ScanDone
    /\ Dirs(tree) # {}
    /\ \E f, g \in tree : f # g /\ Name(f) = Name(g)

\* C5, as claimed: every file the copy loop writes lies strictly inside the
\* destination root.
C5_Claim ==
    \A p \in DOMAIN dest :
        Len(p) > Len(DestRoot) /\ SubSeq(p, 1, Len(DestRoot)) = DestRoot

\* C6, as claimed: for a version other than 3.3, without the override flag the
\* run ends with a non-zero exit status and copies nothing; with it the run
\* reaches the extraction and the version warning has been printed.
C6_Claim ==
    version # "3.3" =>
        /\ ~override => /\ dest = EmptyDict
                        /\ pc = "end" => status \in {"exit-1", "exception"}
        /\ (override /\ ExtractorCalled) => WarnVersion \in out

\* C7, as claimed: when a metadata document or the manifest database is not
\* available, no extractor is called and no file is created in its place.
C7_Claim ==
    (db # "ok" \/ ~plists_parse) => (~ExtractorCalled /\ db # "empty")

\* C8, as claimed: two rows copied in one run never share a destination: the
\* run leaves as many files as it copied rows.
C8_Claim ==
    pc \in {"copy", "end"} => Cardinality(DOMAIN dest) = bar

\* C9, as claimed: the path index from_path returns is the mapping of a full
\* scan of the backup root as it is in that run (the cache file left aside).
C9_Claim ==
    pc = "construct" =>
        \E listing \in Listings(Entries(tree)) : json_data = ScanAll(listing, tree)

\* C10, as claimed: the cache file is written after the scan only: a cache
\* file that parses holds the complete mapping of the scan that wrote it, no
\* cache file exists while a scan runs or after a run was interrupted in its
\* scan, and a run that finds a cache file gets the complete mapping of the
\* scan that produced the file.
C10_Claim ==
    /\ cache.kind = "json" =>
          JsonLoad(cache.items) = ScanAll(scanned.files, scanned.tree)
    /\ (pc \in {"scan", "killed"} /\ "Parsing backup..." \in out /\ ~ScanDone)
          => cache.kind = "absent"
    /\ (pc = "construct" /\ "Parsing backup..." \notin out) =>
          json_data = ScanAll(scanned.files, scanned.tree)

====
